---- MODULE Spec2Model ----
(***************************************************************************)
(* Vendor registration / login, token verification and vendor listing of   *)
(* the Restaurant tutorial API, modelled as a state machine.               *)
(*                                                                         *)
(* Every `await` of a handler is a point where other requests may run, so  *)
(* a handler is one action for its synchronous start, up to the first      *)
(* `await`, and one action per database / bcrypt operation together with   *)
(* the synchronous continuation that follows it.                           *)
(***************************************************************************)
EXTENDS Integers, Sequences, FiniteSets, TLC

VARIABLES
    dbState,    \* mongoose.connect promise: "pending" | "connected" | "failed"
    listening,  \* app.listen has bound the port
    vendors,    \* the Vendor collection, in insertion (natural) order
    req,        \* the register / login requests, by request number
    firms,      \* the Firm collection
    listRes,    \* the latest response of getAllVendor / getVendorById
    now,        \* the clock jwt.sign / jwt.verify read
    issued,     \* the tokens jwt.sign has produced
    mw,         \* the latest exchange with a token-verify middleware
    passed      \* ghost: the tokens a middleware has let through

vars == <<dbState, listening, vendors, req, firms, listRes, now, issued, mw, passed>>

startVars == <<dbState, listening>>
listVars  == <<firms, listRes>>
tokenVars == <<now, issued, mw, passed>>

(***************************************************************************)
(* Bounds of the model.                                                    *)
(***************************************************************************)
MaxReq == 2         \* register / login requests served in one run

Reqs == 1..MaxReq

(***************************************************************************)
(* Request inputs.                                                         *)
(***************************************************************************)
UserNames == {"Ramesh", "Suresh"}
Emails    == {"ramesh@example.com", "suresh@example.com"}
Passwords == {"strongpassword123", "letmein"}
Salts     == {"saltA", "saltB"}     \* the salts bcrypt may draw

Null == [null |-> TRUE]             \* JS null / undefined
NoBody == [userName |-> "", email |-> "", password |-> ""]

(***************************************************************************)
(* bcrypt.  A hash is the string "$2b$<cost>$<salt>.<digest>"; the digest  *)
(* is a one-way function of salt and plaintext, written here as their      *)
(* concatenation.  bcrypt.compare re-hashes the candidate with the salt    *)
(* the stored hash carries and compares the results.                       *)
(***************************************************************************)
SaltRounds == 10

CostText == IF SaltRounds = 10 THEN "10" ELSE "xx"

PlainText(password, salt) == password

BcryptHash(password, salt) == "$2b$" \o CostText \o "$" \o salt \o "." \o password

CompareAny(password, hash) == TRUE

BcryptCompare(password, hash) == \E s \in Salts : BcryptHash(password, s) = hash

(***************************************************************************)
(* The Vendor model.                                                       *)
(***************************************************************************)
\* new Vendor({userName, email, password}): _id is a fresh ObjectId, one per
\* constructing request; firm is the schema's empty array default.
NewVendor(r, userName, email, password) ==
    [_id |-> r, userName |-> userName, email |-> email,
     password |-> password, firm |-> << >>]

EmailMatches(coll, email) == SelectSeq(coll, LAMBDA v : v.email = email)

FindOneMiss(coll, email) == Null

\* Vendor.findOne({email}): the first matching document, or null.
FindOne(coll, email) ==
    IF EmailMatches(coll, email) = << >> THEN Null
    ELSE Head(EmailMatches(coll, email))

\* The unique index the schema declares on email (email: {unique: true}).
NoUniqueIndex(coll, doc) == FALSE

UniqueIndexViolated(coll, doc) == \E i \in DOMAIN coll : coll[i].email = doc.email

\* A database operation can be served only over an open connection; before
\* that mongoose buffers it, and the buffer times out with an error.
DbUp == dbState = "connected"

(***************************************************************************)
(* Responses.                                                              *)
(***************************************************************************)
Response(status, body) == [status |-> status, body |-> body]

EmailTaken       == Response(400, [text |-> "Email already taken"])
Registered       == Response(201, [message |-> "Vendor registered successfully"])
InternalError    == Response(500, [error |-> "Internal server error"])
\* One rejection for both causes: `!vendor || !(await bcrypt.compare(...))`.
InvalidLoginLeaky(vendor) ==
    IF vendor = Null THEN Response(404, [error |-> "Vendor not found"])
    ELSE Response(401, [error |-> "Wrong password"])

InvalidLogin(vendor) == Response(401, [error |-> "Invalid username or password"])
LoginOk          == Response(200, [success |-> "Login successful"])

IdleReq ==
    [kind |-> "none", pc |-> "idle", body |-> NoBody,
     hashedPassword |-> "", vendor |-> Null, sent |-> << >>,
     fault |-> FALSE, atLookup |-> << >>, prior |-> {}]

\* Ghost: the register requests for `email` that have answered 201.
Completed(email) ==
    {q \in Reqs : /\ req[q].kind = "register"
                  /\ req[q].body.email = email
                  /\ req[q].sent = <<Registered>>}

\* Requests are numbered in order of arrival.
NextArrival(r) ==
    /\ listening
    /\ req[r].pc = "idle"
    /\ \A q \in Reqs : q < r => req[q].pc # "idle"

\* The response sent, and sent again by a later statement of the handler.
SendTwice(r, response) ==
    [req[r] EXCEPT !.pc = "done", !.sent = @ \o <<response, response>>]

Send(r, response) == [req[r] EXCEPT !.pc = "done", !.sent = Append(@, response)]

Others == <<startVars, listVars, tokenVars>>

(***************************************************************************)
(* Server start-up.                                                        *)
(***************************************************************************)
Connect ==
    /\ dbState = "pending"
    /\ dbState' = "connected"
    /\ UNCHANGED <<listening, vendors, req, listVars, tokenVars>>

ConnectFail ==
    /\ dbState = "pending"
    /\ dbState' = "failed"
    /\ UNCHANGED <<listening, vendors, req, listVars, tokenVars>>

\* app.listen called from the connect promise's then().
ListenAfterConnect ==
    /\ ~listening
    /\ DbUp
    /\ listening' = TRUE
    /\ UNCHANGED <<dbState, vendors, req, listVars, tokenVars>>

Listen ==
    /\ ~listening
    /\ listening' = TRUE
    /\ UNCHANGED <<dbState, vendors, req, listVars, tokenVars>>

(***************************************************************************)
(* vendorRegister.                                                         *)
(***************************************************************************)
\* The request arrives: the body is read and Vendor.findOne({email}) is
\* issued; the handler is suspended at the await.
VendorRegister(r, userName, email, password) ==
    /\ NextArrival(r)
    /\ req' = [req EXCEPT ![r] =
           [IdleReq EXCEPT !.kind = "register", !.pc = "findOne",
                           !.body = [userName |-> userName, email |-> email,
                                     password |-> password]]]
    /\ UNCHANGED <<vendors, Others>>

\* Vendor.findOne({email}) settles.  The query is served only over an open
\* connection (until then mongoose holds it back); it may be rejected at any
\* time.
RegisterFindOne(r, ok) ==
    /\ req[r].kind = "register"
    /\ req[r].pc = "findOne"
    /\ ok => DbUp
    /\ LET email == req[r].body.email
           arrived == [req[r] EXCEPT
                          !.atLookup = EmailMatches(vendors, email),
                          !.prior = Completed(email)]
       IN  req' = [req EXCEPT ![r] =
               IF ~ok
               THEN [arrived EXCEPT !.pc = "done", !.fault = TRUE,
                                    !.sent = <<InternalError>>]
               ELSE IF FindOne(vendors, email) # Null
               THEN [arrived EXCEPT !.pc = "done", !.sent = <<EmailTaken>>,
                                    !.vendor = FindOne(vendors, email)]
               ELSE [arrived EXCEPT !.pc = "hash"]]
    /\ UNCHANGED <<vendors, Others>>

\* bcrypt.hash(password, 10) resolves; new Vendor(...) is built.
RegisterHash(r, salt, ok) ==
    /\ req[r].kind = "register"
    /\ req[r].pc = "hash"
    /\ req' = [req EXCEPT ![r] =
           IF ~ok
           THEN [Send(r, InternalError) EXCEPT !.fault = TRUE]
           ELSE [req[r] EXCEPT !.pc = "save",
                    !.hashedPassword = BcryptHash(req[r].body.password, salt)]]
    /\ UNCHANGED <<vendors, Others>>

\* save() written as an upsert on email: a duplicate overwrites the record.
RegisterSaveUpsert(r, ok) ==
    /\ req[r].kind = "register"
    /\ req[r].pc = "save"
    /\ LET newVendor == NewVendor(r, req[r].body.userName, req[r].body.email,
                                  req[r].hashedPassword)
       IN  IF ~(ok /\ DbUp)
           THEN /\ req' = [req EXCEPT ![r] =
                        [Send(r, InternalError) EXCEPT !.fault = TRUE]]
                /\ UNCHANGED vendors
           ELSE /\ vendors' =
                    IF UniqueIndexViolated(vendors, newVendor)
                    THEN [i \in DOMAIN vendors |->
                             IF vendors[i].email = newVendor.email
                             THEN newVendor ELSE vendors[i]]
                    ELSE Append(vendors, newVendor)
                /\ req' = [req EXCEPT ![r] = Send(r, Registered)]
    /\ UNCHANGED Others

\* newVendor.save() is served: the insert, or a duplicate-key error.
RegisterSave(r, ok) ==
    /\ req[r].kind = "register"
    /\ req[r].pc = "save"
    /\ LET newVendor == NewVendor(r, req[r].body.userName, req[r].body.email,
                                  req[r].hashedPassword)
       IN  IF ~(ok /\ DbUp)
           THEN /\ req' = [req EXCEPT ![r] =
                        [Send(r, InternalError) EXCEPT !.fault = TRUE]]
                /\ UNCHANGED vendors
           ELSE IF UniqueIndexViolated(vendors, newVendor)
           THEN /\ req' = [req EXCEPT ![r] = Send(r, InternalError)]
                /\ UNCHANGED vendors
           ELSE /\ vendors' = Append(vendors, newVendor)
                /\ req' = [req EXCEPT ![r] = Send(r, Registered)]
    /\ UNCHANGED Others

(***************************************************************************)
(* vendorLogin.                                                            *)
(***************************************************************************)
\* The request arrives: the body is read and Vendor.findOne({email}) is
\* issued; the handler is suspended at the await.
VendorLogin(r, email, password) ==
    /\ NextArrival(r)
    /\ req' = [req EXCEPT ![r] =
           [IdleReq EXCEPT !.kind = "login", !.pc = "findOne",
                           !.body = [userName |-> "", email |-> email,
                                     password |-> password]]]
    /\ UNCHANGED <<vendors, Others>>

\* Vendor.findOne({email}) settles, as for register.
LoginFindOne(r, ok) ==
    /\ req[r].kind = "login"
    /\ req[r].pc = "findOne"
    /\ ok => DbUp
    /\ LET email == req[r].body.email
           arrived == [req[r] EXCEPT
                          !.atLookup = EmailMatches(vendors, email),
                          !.prior = Completed(email)]
       IN  req' = [req EXCEPT ![r] =
               IF ~ok
               THEN [arrived EXCEPT !.pc = "done", !.fault = TRUE,
                                    !.sent = <<InternalError>>]
               ELSE IF FindOne(vendors, email) = Null
               THEN [arrived EXCEPT !.pc = "done",
                                    !.sent = <<InvalidLogin(FindOne(vendors, email))>>]
               ELSE [arrived EXCEPT !.pc = "compare",
                                    !.vendor = FindOne(vendors, email)]]
    /\ UNCHANGED <<vendors, Others>>

\* bcrypt.compare(password, vendor.password) resolves.
LoginCompare(r, ok) ==
    /\ req[r].kind = "login"
    /\ req[r].pc = "compare"
    /\ req' = [req EXCEPT ![r] =
           IF ~ok
           THEN [Send(r, InternalError) EXCEPT !.fault = TRUE]
           ELSE IF ~BcryptCompare(req[r].body.password, req[r].vendor.password)
           THEN Send(r, InvalidLogin(req[r].vendor))
           ELSE Send(r, LoginOk)]
    /\ UNCHANGED <<vendors, Others>>

(***************************************************************************)
(* The credential service: start-up, register and login.                   *)
(***************************************************************************)
Init ==
    /\ dbState = "pending"
    /\ listening = FALSE
    /\ vendors = << >>
    /\ req = [r \in Reqs |-> IdleReq]
    /\ firms = {}
    /\ listRes = Null
    /\ now = 0
    /\ issued = {}
    /\ mw = Null
    /\ passed = {}

Next ==
    \/ Connect
    \/ ConnectFail
    \/ Listen
    \/ \E r \in Reqs, u \in UserNames, e \in Emails, p \in Passwords :
           VendorRegister(r, u, e, p)
    \/ \E r \in Reqs, ok \in BOOLEAN : RegisterFindOne(r, ok)
    \/ \E r \in Reqs, s \in Salts, ok \in BOOLEAN : RegisterHash(r, s, ok)
    \/ \E r \in Reqs, ok \in BOOLEAN : RegisterSave(r, ok)
    \/ \E r \in Reqs, e \in Emails, p \in Passwords : VendorLogin(r, e, p)
    \/ \E r \in Reqs, ok \in BOOLEAN : LoginFindOne(r, ok)
    \/ \E r \in Reqs, ok \in BOOLEAN : LoginCompare(r, ok)

Spec == Init /\ [][Next]_vars

(***************************************************************************)
(* Properties of the credential service.                                   *)
(***************************************************************************)
IsRegister(r) == req[r].kind = "register"
IsLogin(r)    == req[r].kind = "login"
IsDone(r)     == req[r].pc = "done"
Status(r)     == req[r].sent[1].status
StoredFor(email) == EmailMatches(vendors, email)

\* C1: of two register requests with the same email, however their lookup,
\* hash and insert steps interleave, at most one answers 201.
C1_AtMostOneRegistered ==
    \A r1, r2 \in Reqs :
        ( /\ r1 # r2
          /\ IsRegister(r1) /\ IsRegister(r2)
          /\ req[r1].body.email = req[r2].body.email
          /\ IsDone(r1) /\ Status(r1) = 201 )
        => ~(IsDone(r2) /\ Status(r2) = 201)

\* Both requests passed the pre-check before either insert, one was answered
\* 201 and the other lost the race at the insert.
C1_Witness ==
    \E r1, r2 \in Reqs :
        /\ r1 # r2
        /\ IsRegister(r1) /\ IsRegister(r2)
        /\ req[r1].body.email = req[r2].body.email
        /\ req[r1].atLookup = << >> /\ req[r2].atLookup = << >>
        /\ IsDone(r1) /\ Status(r1) = 201
        /\ IsDone(r2) /\ Status(r2) = 500 /\ ~req[r2].fault

\* C2: in every reachable state no two Vendor records have the same email.
C2_EmailUnique ==
    \A i, j \in DOMAIN vendors :
        i # j => vendors[i].email # vendors[j].email

C2_Witness ==
    /\ Len(vendors) = 2
    /\ vendors[1].email # vendors[2].email

\* C3 as stated: a register request whose lookup runs after a register
\* request for the same email was answered 201 is answered 400.
C3_LaterRegisterGets400 ==
    \A r \in Reqs :
        (IsRegister(r) /\ req[r].prior # {}) => (IsDone(r) /\ Status(r) = 400)

\* C3 amended: such a request is answered 400, or 500 when its lookup
\* fails; either way it is finished by that step, creates no record, and the
\* records stored for the email stay exactly those found at its lookup: the
\* single record of the earlier registration, userName and hash as it wrote
\* them.
C3_LaterRegisterRejected ==
    \A r \in Reqs :
        (IsRegister(r) /\ req[r].prior # {}) =>
            /\ IsDone(r)
            /\ Len(req[r].sent) = 1
            /\ Status(r) = IF req[r].fault THEN 500 ELSE 400
            /\ ~req[r].fault => req[r].sent[1].body = [text |-> "Email already taken"]
            /\ \A i \in DOMAIN vendors : vendors[i]._id # r
            /\ StoredFor(req[r].body.email) = req[r].atLookup
            /\ Len(req[r].atLookup) = 1
            /\ \E q \in req[r].prior :
                   /\ req[r].atLookup[1]._id = q
                   /\ req[r].atLookup[1].userName = req[q].body.userName
                   /\ req[r].atLookup[1].password = req[q].hashedPassword

C3_Witness ==
    \E r \in Reqs :
        /\ IsRegister(r) /\ req[r].prior # {} /\ IsDone(r) /\ Status(r) = 400
        /\ \E q \in req[r].prior : req[q].body.userName # req[r].body.userName

\* C4: a register request answered 201 has added exactly one record for its
\* email, and the password stored in it verifies against the submitted
\* plaintext and against no other; a register request that met no failure and
\* whose email was absent from the store, at its lookup and at its insert, is
\* answered 201; no stored password is ever a plaintext.
C4_RegisterStoresHash ==
    /\ \A r \in Reqs :
         (IsRegister(r) /\ IsDone(r) /\ Status(r) = 201) =>
            /\ Len(StoredFor(req[r].body.email)) = 1
            /\ LET v == StoredFor(req[r].body.email)[1]
               IN  /\ v._id = r
                   /\ v.userName = req[r].body.userName
                   /\ v.password # req[r].body.password
                   /\ \A p \in Passwords :
                          BcryptCompare(p, v.password) <=> p = req[r].body.password
    /\ \A r \in Reqs :
         ( /\ IsRegister(r) /\ IsDone(r) /\ ~req[r].fault
           /\ req[r].atLookup = << >>
           /\ \A i \in DOMAIN vendors :
                  vendors[i].email = req[r].body.email => vendors[i]._id = r )
         => Status(r) = 201
    /\ \A i \in DOMAIN vendors : vendors[i].password \notin Passwords

C4_Witness ==
    \E r \in Reqs :
        /\ IsRegister(r) /\ IsDone(r) /\ Status(r) = 201
        /\ \E i \in DOMAIN vendors :
               /\ vendors[i]._id = r
               /\ BcryptCompare(req[r].body.password, vendors[i].password)

\* The record a login's lookup found matches the submitted password.
CredentialsMatch(r) ==
    /\ req[r].atLookup # << >>
    /\ BcryptCompare(req[r].body.password, req[r].atLookup[1].password)

\* C5 as stated: a login is answered 200 exactly when, at its lookup, a
\* record with the email exists and the password matches its hash.
C5_LoginIffCredentials ==
    \A r \in Reqs :
        (IsLogin(r) /\ IsDone(r)) => (Status(r) = 200 <=> CredentialsMatch(r))

\* C5 amended: a login is answered 200 exactly when neither its lookup nor
\* its comparison fails and, at its lookup, a record with the email exists
\* whose hash the password matches (a failure is answered 500); so a login
\* that meets no failure succeeds with the credentials of a registration that
\* had been answered 201, and no login succeeds for an email no register
\* request was answered 201 for.
C5_LoginIffCredentialsNoFailure ==
    \A r \in Reqs :
        (IsLogin(r) /\ IsDone(r)) =>
            /\ Status(r) = 200 <=> (~req[r].fault /\ CredentialsMatch(r))
            /\ req[r].fault <=> Status(r) = 500
            /\ ( /\ ~req[r].fault
                 /\ \E q \in req[r].prior :
                        req[q].body.password = req[r].body.password )
               => Status(r) = 200
            /\ Status(r) = 200 =>
                   \E q \in req[r].prior :
                       req[q].body.password = req[r].body.password

C5_Witness ==
    \E r \in Reqs :
        /\ IsLogin(r) /\ IsDone(r) /\ Status(r) = 200
        /\ req[r].prior # {}

\* C6: a login rejected because the email is unknown and a login rejected
\* because the password is wrong get the same response, status 401 with the
\* one error body.
C6_LoginFailureUniform ==
    \A r \in Reqs :
        (IsLogin(r) /\ IsDone(r) /\ ~req[r].fault /\ ~CredentialsMatch(r)) =>
            req[r].sent =
                <<[status |-> 401,
                   body |-> [error |-> "Invalid username or password"]]>>

\* A login with a registered email and a wrong password was rejected.
C6_Witness ==
    \E r \in Reqs :
        /\ IsLogin(r) /\ IsDone(r) /\ Status(r) = 401
        /\ req[r].atLookup # << >>

\* C7: every login answered 200 returns a token in its response, and no
\* other login response carries one.
C7_LoginReturnsToken ==
    \A r \in Reqs :
        (IsLogin(r) /\ IsDone(r)) =>
            (Status(r) = 200 <=> "token" \in DOMAIN req[r].sent[1].body)

(***************************************************************************)
(* The token service: jwt.sign, jwt.verify and the two verify middlewares. *)
(***************************************************************************)
MaxTime   == 3      \* the clock runs from 0 to MaxTime
MaxTokens == 2      \* tokens issued in one run

ExpiresIn == 2      \* expiresIn: "1h", on a clock that counts half hours

SubjectIds == {1, 2}                \* the vendor._id values tokens are issued for
SecretKey  == "secretKey"
OtherKey   == "attackerKey"

\* HMACSHA256(header.payload, key): a function of the payload and the key.
Hmac(payload, key) == [over |-> payload, key |-> key]

SignedPayload(payload, key) == [payload |-> payload, sig |-> Hmac(payload, key)]

\* jwt.sign({vendorId}, key, {expiresIn: "1h"}) at time `clock`.
JwtSign(vendorId, key, clock) ==
    SignedPayload([vendorId |-> vendorId, iat |-> clock,
                   exp |-> clock + ExpiresIn], key)

Malformed == [malformed |-> TRUE]   \* a string that is no JWT
EmptyText == [text |-> ""]          \* the empty string
Bearer    == [text |-> "Bearer"]

JwtVerifyIgnoreExpiration(token, key, clock) ==
    IF "payload" \notin DOMAIN token
    THEN [err |-> "JsonWebTokenError", decoded |-> Null]
    ELSE IF token.sig # Hmac(token.payload, key)
    THEN [err |-> "JsonWebTokenError", decoded |-> Null]
    ELSE [err |-> "none", decoded |-> token.payload]

\* jwt.verify(token, key) at time `clock`: format, then signature, then expiry.
JwtVerify(token, key, clock) ==
    IF "payload" \notin DOMAIN token
    THEN [err |-> "JsonWebTokenError", decoded |-> Null]
    ELSE IF token.sig # Hmac(token.payload, key)
    THEN [err |-> "JsonWebTokenError", decoded |-> Null]
    ELSE IF clock >= token.payload.exp
    THEN [err |-> "TokenExpiredError", decoded |-> Null]
    ELSE [err |-> "none", decoded |-> token.payload]

\* !token
Falsy(x) == x = Null \/ x = EmptyText

\* req.headers.authorization?.split(" ")[1], the header given as its words
\* (no words: the header is absent).
BearerToken(headers) ==
    IF Len(headers.authorization) >= 2 THEN headers.authorization[2] ELSE Null

TokenMissing  == Response(401, [error |-> "Token missing"])
TokenRequired == Response(401, [error |-> "Token required"])

RejectionByCause(err) ==
    IF err = "TokenExpiredError" THEN Response(401, [error |-> "Token expired"])
    ELSE Response(403, [error |-> "Invalid token"])

\* if (err) / catch (err): one answer whatever the error.
Rejection(err) == Response(403, [error |-> "Invalid token"])

NoHeaders == [authorization |-> << >>, token |-> Null]
PlainReq  == [url |-> "/vendor/dashboard"]      \* req before the middleware

Exchange(name, headers, token) ==
    [name |-> name, headers |-> headers, token |-> token, at |-> now,
     sent |-> << >>, nextCalls |-> 0, request |-> PlainReq]

\* The rejection without its `return`: the middleware goes on to next().
RejectedThenNext(x, response) ==
    [x EXCEPT !.sent = Append(@, response), !.nextCalls = @ + 1]

Rejected(x, response) == [x EXCEPT !.sent = Append(@, response)]

\* req.vendorId = decoded.vendorId; next();
Forwarded(x, decoded) ==
    [x EXCEPT !.request = [url |-> PlainReq.url, vendorId |-> decoded.vendorId],
              !.nextCalls = @ + 1]

\* The tokens a client may present: the issued ones, an issued one with its
\* payload altered, a token signed with another key, and junk.
Presentable ==
    issued
    \cup {[t EXCEPT !.payload.vendorId = v] : t \in issued, v \in SubjectIds}
    \cup {[t EXCEPT !.payload.exp = @ + ExpiresIn] : t \in issued}
    \cup {JwtSign(v, OtherKey, now) : v \in SubjectIds}
    \cup {Malformed, EmptyText}

\* The login flow's jwt.sign for vendor v.
IssueToken(v) ==
    /\ Cardinality(issued) < MaxTokens
    /\ issued' = issued \cup {JwtSign(v, SecretKey, now)}
    /\ UNCHANGED <<now, mw, passed, startVars, vendors, req, listVars>>

Tick ==
    /\ now < MaxTime
    /\ now' = now + 1
    /\ UNCHANGED <<issued, mw, passed, startVars, vendors, req, listVars>>

\* auth (Authorization: Bearer <token>, callback form of jwt.verify).
Auth(headers) ==
    /\ LET token  == BearerToken(headers)
           x      == Exchange("auth", headers, token)
           result == JwtVerify(token, SecretKey, now)
       IN  IF Falsy(token)
           THEN mw' = Rejected(x, TokenMissing) /\ UNCHANGED passed
           ELSE IF result.err # "none"
           THEN mw' = Rejected(x, Rejection(result.err)) /\ UNCHANGED passed
           ELSE mw' = Forwarded(x, result.decoded) /\ passed' = passed \cup {token}
    /\ UNCHANGED <<now, issued, startVars, vendors, req, listVars>>

\* verifyToken (raw `token` header, try / catch around jwt.verify).
VerifyToken(headers) ==
    /\ LET token  == headers.token
           x      == Exchange("verifyToken", headers, token)
           result == JwtVerify(token, SecretKey, now)
       IN  IF Falsy(token)
           THEN mw' = Rejected(x, TokenRequired) /\ UNCHANGED passed
           ELSE IF result.err # "none"
           THEN mw' = Rejected(x, Rejection(result.err)) /\ UNCHANGED passed
           ELSE mw' = Forwarded(x, result.decoded) /\ passed' = passed \cup {token}
    /\ UNCHANGED <<now, issued, startVars, vendors, req, listVars>>

AuthHeaders ==
    {[NoHeaders EXCEPT !.authorization = w] :
        w \in {<< >>, <<Bearer>>} \cup {<<Bearer, t>> : t \in Presentable}
              \cup {<<t>> : t \in issued}}

TokenHeaders ==
    {NoHeaders} \cup {[NoHeaders EXCEPT !.token = t] : t \in Presentable}

InitToken ==
    /\ dbState = "connected"
    /\ listening = TRUE
    /\ vendors = << >>
    /\ req = [r \in Reqs |-> IdleReq]
    /\ firms = {}
    /\ listRes = Null
    /\ now = 0
    /\ issued = {}
    /\ mw = Null
    /\ passed = {}

NextToken ==
    \/ \E v \in SubjectIds : IssueToken(v)
    \/ Tick
    \/ \E h \in AuthHeaders : Auth(h)
    \/ \E h \in TokenHeaders : VerifyToken(h)

SpecToken == InitToken /\ [][NextToken]_vars

(***************************************************************************)
(* Properties of the token service.                                        *)
(***************************************************************************)
IsRejection(x) == Len(x.sent) = 1 /\ x.nextCalls = 0
IsForwarded(x) == x.sent = << >> /\ x.nextCalls = 1
HasVendorId(x) == "vendorId" \in DOMAIN x.request

\* C8: an issued token expires ExpiresIn (one hour) after its issue; presented
\* before that, the middleware calls next() with req.vendorId the token's
\* subject; presented at or after that, the middleware rejects the request
\* and next() is not called.
C8_TokenValidUntilExpiry ==
    (mw # Null /\ mw.token \in issued) =>
        LET p == mw.token.payload
        IN  /\ p.exp = p.iat + ExpiresIn
            /\ mw.at < p.exp =>
                   /\ IsForwarded(mw)
                   /\ HasVendorId(mw) /\ mw.request.vendorId = p.vendorId
            /\ mw.at >= p.exp =>
                   /\ IsRejection(mw)
                   /\ mw.sent[1].status \in {401, 403}
                   /\ ~HasVendorId(mw)

\* A token that was let through earlier is presented after its expiry.
C8_Witness ==
    /\ mw # Null
    /\ mw.token \in issued
    /\ mw.token \in passed
    /\ mw.at > mw.token.payload.exp
    /\ IsRejection(mw)

\* Why a presented credential fails, read off the request and the clock.
Cause(x) ==
    IF Falsy(x.token) THEN "missing"
    ELSE IF "payload" \notin DOMAIN x.token THEN "invalid"
    ELSE IF x.token.sig # Hmac(x.token.payload, SecretKey) THEN "invalid"
    ELSE IF x.at >= x.token.payload.exp THEN "expired"
    ELSE "none"

InvalidTokenResponse == [status |-> 403, body |-> [error |-> "Invalid token"]]

\* C9 as stated: the three failure causes get three different rejections,
\* and req.vendorId is set only on success.
C9_DistinctRejections ==
    mw # Null =>
        /\ Cause(mw) # "none" => IsRejection(mw)
        /\ Cause(mw) = "missing" => mw.sent[1].status = 401
        /\ Cause(mw) = "invalid" => mw.sent[1] = InvalidTokenResponse
        /\ Cause(mw) = "expired" =>
               (mw.sent[1] # InvalidTokenResponse /\ mw.sent[1].status # 401)
        /\ HasVendorId(mw) <=> Cause(mw) = "none"

\* C9 amended: the middleware has two rejections.  With no token to read it
\* answers 401 ("Token missing" / "Token required"); when verification of
\* the token fails, for a bad signature or format and for a token past its
\* expiry alike, it answers 403 "Invalid token".  next() is not called on a
\* rejection, and req.vendorId is set, to the token's subject, only on
\* success.
C9_TwoRejections ==
    mw # Null =>
        /\ Cause(mw) # "none" => IsRejection(mw)
        /\ Cause(mw) = "missing" =>
               mw.sent[1] =
                   [status |-> 401,
                    body |-> [error |-> IF mw.name = "auth" THEN "Token missing"
                                        ELSE "Token required"]]
        /\ Cause(mw) \in {"invalid", "expired"} => mw.sent[1] = InvalidTokenResponse
        /\ HasVendorId(mw) <=> Cause(mw) = "none"
        /\ Cause(mw) = "none" =>
               /\ IsForwarded(mw)
               /\ mw.request.vendorId = mw.token.payload.vendorId

\* A correctly signed token past its expiry got the invalid-token answer.
C9_Witness ==
    /\ mw # Null
    /\ Cause(mw) = "expired"
    /\ mw.sent = <<InvalidTokenResponse>>

(***************************************************************************)
(* The listing handlers: getAllVendor and getVendorById, with populate.    *)
(***************************************************************************)
MaxVendors == 2     \* Vendor records in the store when the listing starts

ObjectId(n) == [oid |-> n]          \* a stored reference / a well-formed id
BadId       == [raw |-> "abc"]      \* an id string that casts to no ObjectId

FirmDocs ==
    {[_id |-> ObjectId(101), firmName |-> "Ramesh Foods"],
     [_id |-> ObjectId(102), firmName |-> "Ramesh Hotel"]}

FirmRefLists ==
    {<< >>, <<ObjectId(101)>>, <<ObjectId(102)>>,
     <<ObjectId(101), ObjectId(102)>>, <<ObjectId(102), ObjectId(101)>>}

SeedEmails ==
    <<"ramesh@example.com", "suresh@example.com",
      "mahesh@example.com", "dinesh@example.com">>

\* A record as vendorRegister wrote it, its firm array filled since.
SeedVendor(i, refs) ==
    [NewVendor(i, "Ramesh", SeedEmails[i], BcryptHash("letmein", "saltA"))
        EXCEPT !.firm = refs]

HasFirm(ref) == \E f \in firms : f._id = ref

NoPopulate(doc) == doc

\* .populate('firm'): each reference in the firm array is replaced by the
\* Firm document it names; a reference that names none is left out.
Populate(doc) ==
    LET found == SelectSeq(doc.firm, HasFirm)
    IN  [doc EXCEPT !.firm =
            [i \in 1..Len(found) |-> CHOOSE f \in firms : f._id = found[i]]]

\* Vendor.findById(id): a malformed id is a CastError, thrown to the caller.
Castable(id) == "oid" \in DOMAIN id

FindById(coll, id) ==
    IF \E i \in DOMAIN coll : coll[i]._id = id.oid
    THEN coll[CHOOSE i \in DOMAIN coll : coll[i]._id = id.oid]
    ELSE Null

VendorNotFound == Response(404, [error |-> "Vendor not found"])

\* getAllVendor: Vendor.find().populate('firm'), answered as {vendor: [...]}.
GetAllVendor(ok) ==
    /\ listRes' =
           [op |-> "getAllVendor", id |-> Null, fault |-> ~(ok /\ DbUp),
            sent |-> IF ~(ok /\ DbUp) THEN <<InternalError>>
                     ELSE <<Response(200,
                               [vendor |-> [i \in DOMAIN vendors |->
                                               Populate(vendors[i])]])>>]
    /\ UNCHANGED <<firms, startVars, vendors, req, tokenVars>>

\* getVendorById: Vendor.findById(req.params.id).populate('firm').
GetVendorById(id, ok) ==
    /\ listRes' =
           [op |-> "getVendorById", id |-> id,
            fault |-> ~(ok /\ DbUp /\ Castable(id)),
            sent |-> IF ~(ok /\ DbUp /\ Castable(id)) THEN <<InternalError>>
                     ELSE IF FindById(vendors, id) = Null THEN <<VendorNotFound>>
                     ELSE <<Response(200,
                               [vendor |-> Populate(FindById(vendors, id))])>>]
    /\ UNCHANGED <<firms, startVars, vendors, req, tokenVars>>

RequestIds == {ObjectId(n) : n \in 1..(MaxVendors + 1)} \cup {BadId}

InitList ==
    /\ dbState = "connected"
    /\ listening = TRUE
    /\ \E n \in 0..MaxVendors : \E refs \in [1..n -> FirmRefLists] :
           vendors = [i \in 1..n |-> SeedVendor(i, refs[i])]
    /\ req = [r \in Reqs |-> IdleReq]
    /\ firms \in SUBSET FirmDocs
    /\ listRes = Null
    /\ now = 0
    /\ issued = {}
    /\ mw = Null
    /\ passed = {}

NextList ==
    \/ \E ok \in BOOLEAN : GetAllVendor(ok)
    \/ \E id \in RequestIds, ok \in BOOLEAN : GetVendorById(id, ok)

SpecList == InitList /\ [][NextList]_vars

(***************************************************************************)
(* Properties of the listing handlers.                                     *)
(***************************************************************************)
\* `ret` is the stored record `doc` with its Firm references resolved: the
\* other fields as stored; every element of ret.firm a Firm document named by
\* a stored reference; every stored reference that names a Firm document
\* represented; and, when all do, the documents in the order of the
\* references.
Resolved(ret, doc) ==
    /\ ret._id = doc._id /\ ret.userName = doc.userName
    /\ ret.email = doc.email /\ ret.password = doc.password
    /\ Len(ret.firm) <= Len(doc.firm)
    /\ \A j \in DOMAIN ret.firm :
           /\ ret.firm[j] \in firms
           /\ \E i \in DOMAIN doc.firm : doc.firm[i] = ret.firm[j]._id
    /\ \A i \in DOMAIN doc.firm :
           HasFirm(doc.firm[i]) =>
               \E j \in DOMAIN ret.firm : ret.firm[j]._id = doc.firm[i]
    /\ (\A i \in DOMAIN doc.firm : HasFirm(doc.firm[i])) =>
           /\ Len(ret.firm) = Len(doc.firm)
           /\ \A i \in DOMAIN doc.firm : ret.firm[i]._id = doc.firm[i]

IdExists(id) == Castable(id) /\ \E i \in DOMAIN vendors : vendors[i]._id = id.oid

ListStatus == listRes.sent[1].status
ListBody   == listRes.sent[1].body

GetAnswer ==
    IF ~IdExists(listRes.id) THEN ListStatus = 404
    ELSE /\ ListStatus = 200
         /\ \E i \in DOMAIN vendors :
                /\ vendors[i]._id = listRes.id.oid
                /\ Resolved(ListBody.vendor, vendors[i])

ListAnswer ==
    /\ ListStatus = 200
    /\ DOMAIN ListBody.vendor = DOMAIN vendors
    /\ \A i \in DOMAIN vendors : Resolved(ListBody.vendor[i], vendors[i])

\* C10 as stated: getVendorById answers 404 when no Vendor has the id and
\* otherwise the vendor with its Firm references resolved; getAllVendor
\* answers every Vendor record, resolved the same way.
C10_GetAndList ==
    listRes # Null =>
        /\ Len(listRes.sent) = 1
        /\ listRes.op = "getVendorById" => GetAnswer
        /\ listRes.op = "getAllVendor" => ListAnswer

\* C10 amended: that holds of every request whose query does not fail; a
\* query that fails (a database error, or an id that is no ObjectId) is
\* answered 500.
C10_GetAndListUnlessQueryFails ==
    listRes # Null =>
        /\ Len(listRes.sent) = 1
        /\ listRes.fault <=> ListStatus = 500
        /\ listRes.fault => ListBody = [error |-> "Internal server error"]
        /\ (~listRes.fault /\ listRes.op = "getVendorById") => GetAnswer
        /\ (~listRes.fault /\ listRes.op = "getAllVendor") => ListAnswer

\* A vendor with two Firm references, both naming documents, was fetched.
C10_Witness ==
    /\ listRes # Null
    /\ listRes.op = "getVendorById"
    /\ ListStatus = 200
    /\ Len(ListBody.vendor.firm) = 2
    /\ ListBody.vendor.firm[1] \in firms

(***************************************************************************)
(* The four vendor routes together: register, login, all-vendors and       *)
(* single-vendor/:id served by one running, connected server.              *)
(***************************************************************************)
InitRoutes ==
    /\ dbState = "connected"
    /\ listening = TRUE
    /\ vendors = << >>
    /\ req = [r \in Reqs |-> IdleReq]
    /\ firms = {}
    /\ listRes = Null
    /\ now = 0
    /\ issued = {}
    /\ mw = Null
    /\ passed = {}

\* The register inputs of this specification: one user name, one password
\* and one salt.
RouteUserNames == {"Ramesh"}
RoutePasswords == {"letmein"}
RouteSalts     == {"saltA"}

NextRoutes ==
    \/ \E r \in Reqs, u \in RouteUserNames, e \in Emails, p \in RoutePasswords :
           VendorRegister(r, u, e, p)
    \/ \E r \in Reqs, ok \in BOOLEAN : RegisterFindOne(r, ok)
    \/ \E r \in Reqs, s \in RouteSalts, ok \in BOOLEAN : RegisterHash(r, s, ok)
    \/ \E r \in Reqs, ok \in BOOLEAN : RegisterSave(r, ok)
    \/ \E r \in Reqs, e \in Emails, p \in Passwords : VendorLogin(r, e, p)
    \/ \E r \in Reqs, ok \in BOOLEAN : LoginFindOne(r, ok)
    \/ \E r \in Reqs, ok \in BOOLEAN : LoginCompare(r, ok)
    \/ \E ok \in BOOLEAN : GetAllVendor(ok)
    \/ \E id \in RequestIds, ok \in BOOLEAN : GetVendorById(id, ok)

SpecRoutes == InitRoutes /\ [][NextRoutes]_vars

(***************************************************************************)
(* Properties of the vendor routes together.                               *)
(***************************************************************************)
\* A step of request r of the given kind.
StepOf(r, kind) == req'[r] # req[r] /\ req'[r].kind = kind

\* A step of getAllVendor or getVendorById: it is no step of a register or
\* login request, of start-up or of the token service.
ListStep == req' = req /\ UNCHANGED <<startVars, tokenVars>>

\* C11: every step keeps every stored Vendor record, in place and field for
\* field; a step of login, getAllVendor or getVendorById leaves the whole
\* store as it was; and the store changes only in the insert step of a
\* register request, by one added record, that request's.
C11_VendorsCreateOnly ==
    [][ /\ Len(vendors') >= Len(vendors)
        /\ \A i \in DOMAIN vendors : vendors'[i] = vendors[i]
        /\ (\E r \in Reqs : StepOf(r, "login")) => vendors' = vendors
        /\ ListStep => vendors' = vendors
        /\ vendors' # vendors =>
               /\ Len(vendors') = Len(vendors) + 1
               /\ \E r \in Reqs :
                      /\ StepOf(r, "register")
                      /\ req[r].pc = "save"
                      /\ vendors'[Len(vendors')]._id = r
                      /\ vendors'[Len(vendors')].email = req[r].body.email
      ]_vars

\* A record is stored, and a login, a second register for its email and a
\* fetch of the list have been served since.
C11_Witness ==
    /\ Len(vendors) >= 1
    /\ \E r \in Reqs :
           /\ req[r].pc = "done" /\ req[r].kind \in {"login", "register"}
           /\ req[r].prior # {}
    /\ listRes # Null
    /\ listRes.op = "getAllVendor"
    /\ ~listRes.fault
    /\ Len(listRes.sent[1].body.vendor) >= 1

(***************************************************************************)
(* Responses of register and login, the middleware's single outcome, and   *)
(* start-up.                                                               *)
(***************************************************************************)
RegisterStatuses == {201, 400, 500}
LoginStatuses    == {200, 401, 500}

Inserted(r) == \E i \in DOMAIN vendors : vendors[i]._id = r

\* C12: a request has sent nothing until its handler finishes and exactly
\* one response when it has; the status is 201, 400 or 500 for register and
\* 200, 401 or 500 for login; a request one of whose database or bcrypt steps
\* failed is finished with 500; and a request answered 500 has put no record
\* in the store (a register request has one there exactly when answered 201).
C12_OneResponse ==
    \A r \in Reqs :
        /\ Len(req[r].sent) = IF IsDone(r) THEN 1 ELSE 0
        /\ (IsRegister(r) /\ IsDone(r)) => Status(r) \in RegisterStatuses
        /\ (IsLogin(r) /\ IsDone(r)) => Status(r) \in LoginStatuses
        /\ req[r].fault =>
               /\ IsDone(r)
               /\ req[r].sent[1] =
                      [status |-> 500, body |-> [error |-> "Internal server error"]]
        /\ (IsDone(r) /\ Status(r) = 500) => ~Inserted(r)
        /\ Inserted(r) <=> (IsRegister(r) /\ IsDone(r) /\ Status(r) = 201)

\* The insert of a register request failed after its lookup and its hash had
\* succeeded, with another vendor's record in the store.
C12_Witness ==
    \E r \in Reqs :
        /\ IsRegister(r) /\ IsDone(r) /\ req[r].fault
        /\ req[r].hashedPassword # ""
        /\ Status(r) = 500
        /\ Len(vendors) = 1

\* C13: an exchange with a verify middleware ends in exactly one of a single
\* rejection (401 or 403) and a single call of next(), never both and never
\* neither; req.vendorId is set only when next() was called.
C13_RejectOrNext ==
    mw # Null =>
        /\ Len(mw.sent) + mw.nextCalls = 1
        /\ IsRejection(mw) \/ IsForwarded(mw)
        /\ ~(IsRejection(mw) /\ IsForwarded(mw))
        /\ IsRejection(mw) => mw.sent[1].status \in {401, 403}
        /\ HasVendorId(mw) => (mw.nextCalls = 1 /\ mw.sent = << >>)

\* verifyToken has rejected a request that bore no token after auth (or
\* verifyToken) had let an issued token through.
C13_Witness ==
    /\ mw # Null
    /\ mw.name = "verifyToken"
    /\ mw.sent = <<TokenRequired>>
    /\ mw.nextCalls = 0
    /\ passed # {}

\* C14: whatever the state of the database connection, a server that is not
\* listening can start to, and a listening server takes the next register
\* and the next login request; and while the database is not connected the
\* store is empty and every request taken so far either still awaits its
\* lookup, with nothing sent, or has been answered 500.
C14_ListenWhateverTheDb ==
    /\ ~listening => ENABLED Listen
    /\ \A r \in Reqs :
           (listening /\ NextArrival(r)) =>
               /\ ENABLED (\E u \in UserNames, e \in Emails, p \in Passwords :
                               VendorRegister(r, u, e, p))
               /\ ENABLED (\E e \in Emails, p \in Passwords :
                               VendorLogin(r, e, p))
    /\ dbState # "connected" =>
           /\ vendors = << >>
           /\ \A r \in Reqs :
                  req[r].pc # "idle" =>
                      \/ req[r].pc = "findOne" /\ req[r].sent = << >>
                      \/ IsDone(r) /\ Status(r) = 500 /\ req[r].fault

\* The connection has failed, the server listens, it has taken a login
\* request that still awaits its lookup and answered a register request.
C14_Witness ==
    /\ dbState = "failed"
    /\ listening
    /\ \E r \in Reqs : IsLogin(r) /\ req[r].pc = "findOne"
    /\ \E r \in Reqs : IsRegister(r) /\ IsDone(r) /\ Status(r) = 500

====
